---------------------------- MODULE Spec2Model ----------------------------
(***************************************************************************)
(* Boredom Challenge: the session controller (the Svelte component kept in *)
(* src/README.md, lines 22-372) and the persistence and streak store       *)
(* (src/src/lib/store.ts).                                                 *)
(*                                                                         *)
(* Representation.                                                         *)
(*  - A JavaScript value is a record tagged by its typeof-like kind "t".    *)
(*  - A JavaScript string is a sequence of integers.  <<2, t>> is the       *)
(*    ISO-8601 text of the instant t, <<1, n>> the n-th UUID drawn from     *)
(*    crypto.randomUUID, <<>> the empty string; any other text is the       *)
(*    sequence of its character codes (see String and parseInt).  The       *)
(*    messages of the import are <<3, i, k>> "Imported i session(s),        *)
(*    skipped k duplicate(s)", <<4>> "Invalid file format...", <<5>> "File  *)
(*    is missing required data..." and <<6>> "Unable to read file...".      *)
(*  - An instant is a whole number of hours since the epoch (UTC).  A       *)
(*    calendar date text YYYY-MM-DD is the number of its day since the      *)
(*    epoch; the text order of such dates is the order of the day numbers.  *)
(*    Daylight-saving changes of the local offset are not modelled: tz is   *)
(*    a fixed offset in hours.                                              *)
(*  - Display-only component state (dark, attentionVisible,                 *)
(*    attentionProgress, displayTime) is left out; the progress interval    *)
(*    is kept as a pending timer whose callback writes only                 *)
(*    attentionProgress.                                                    *)
(***************************************************************************)
EXTENDS Integers, Sequences, FiniteSets, TLC

VARIABLES
    \* --- component state (src/README.md 39-68, 119-120) ---
    state, durationMinutes, remainingSeconds, attentionChecksResponded,
    sessionStartTime, timerInterval, attentionTimeout, attentionBarInterval,
    nextAttentionCheck, completedDays, currentStreak,
    touchStartY, touchAccumulated, importMessage,
    \* --- environment ---
    timers,          \* the timers the browser holds pending
    storedData,      \* localStorage['boredom-challenge-data']: <<>> or <<AppData>>
    lastDuration,    \* localStorage['boredom-last-duration']: <<>> or <<text>>
    uuids,           \* how many UUIDs crypto.randomUUID has handed out
    now,             \* the wall clock, hours since the epoch (UTC)
    tz,              \* the viewer's UTC offset in hours
    \* --- TRUE while the timeout set by showImportMessage is pending ---
    importMessageTimeout

vars == <<state, durationMinutes, remainingSeconds, attentionChecksResponded,
          sessionStartTime, timerInterval, attentionTimeout, attentionBarInterval,
          nextAttentionCheck, completedDays, currentStreak,
          touchStartY, touchAccumulated, importMessage,
          timers, storedData, lastDuration, uuids, now, tz, importMessageTimeout>>

-----------------------------------------------------------------------------
(* Bounds of the model *)

\* Sessions are started, and their ticks explored, only for durations of at
\* most this many minutes.
MaxTickMinutes == 1
\* A session is started, and a record saved or imported, only while the
\* store holds fewer than this many sessions.
MaxSessions == 1
\* The clock is not advanced past this instant.
MaxNow == 111
\* Timer handles are drawn from 1..MaxTimerId.
MaxTimerId == 6
\* Under SpecStore a session is recorded, and a file imported, only while
\* the store ends up with at most this many sessions.
MaxStored == 3
\* The same under SpecFiles.
MaxKept == 2

-----------------------------------------------------------------------------
(* Program constants *)

MinDuration == 1
MaxDuration == 60
DefaultDuration == 15
SecondsPerMinute == 60
MinCheckInterval == 30
CheckIntervalSpan == 91
AttentionTimeoutMs == 10000
TickMs == 1000
TouchStepPx == 30
HoursPerDay == 24
NoTimer == 0

\* The number of one-second ticks that fit in the response window.
WindowTicks == AttentionTimeoutMs \div TickMs

-----------------------------------------------------------------------------
(* JavaScript values *)

Undefined == [t |-> "undefined"]
Null == [t |-> "null"]
Bool(b) == [t |-> "boolean", v |-> b]
Num(n) == [t |-> "number", v |-> n]
Str(s) == [t |-> "string", v |-> s]
\* An object or array freshly produced by JSON.parse: it is equal (===,
\* SameValueZero) to no other value, itself parsed again included.
Obj == [t |-> "object"]

\* ToBoolean.  JSON carries no NaN, so 0 is the only falsy number here.
Truthy(x) ==
    CASE x.t = "undefined" -> FALSE
      [] x.t = "null" -> FALSE
      [] x.t = "boolean" -> x.v
      [] x.t = "number" -> x.v # 0
      [] x.t = "string" -> x.v # <<>>
      [] OTHER -> TRUE

\* x || d
OrElse(x, d) == IF Truthy(x) THEN x ELSE d

\* Set.prototype.has on a set of values read back from storage.
SetHas(S, x) == x.t \notin {"object", "array"} /\ x \in S

\* Date.prototype.toISOString of the instant t.
toISOString(t) == <<2, t>>
\* crypto.randomUUID: the n-th UUID.
Uuid(n) == <<1, n>>

\* new Date(x).getTime() of a stored value: <<instant>>, or <<>> for an
\* Invalid Date (any text that is not an ISO-8601 instant).
DateOf(x) ==
    IF x.t = "string" /\ Len(x.v) = 2 /\ x.v[1] = 2 THEN <<x.v[2]>> ELSE <<>>

-----------------------------------------------------------------------------
(* src/src/lib/store.ts *)

\* The date text "NaN-NaN-NaN" that an Invalid Date formats to; it sorts
\* after every YYYY-MM-DD text.
InvalidDay == MaxNow + HoursPerDay

\* The local calendar day of an instant: getFullYear/getMonth/getDate.
LocalDay(t, zone) == (t + zone) \div HoursPerDay

\* new Date("YYYY-MM-DD").getTime(): a date-only text is read as UTC midnight.
\* <<>> for "NaN-NaN-NaN".
ParseDay(day) == IF day = InvalidDay THEN <<>> ELSE <<day * HoursPerDay>>

\* Math.round(a / b) for b > 0.
Round(a, b) == (2 * a + b) \div (2 * b)

getDefaultData == [sessions |-> <<>>, currentStreak |-> 0, longestStreak |-> 0]

loadData(stored) == IF stored = <<>> THEN getDefaultData ELSE stored[1]

saveData(data) == <<data>>

toLocalDateString(iso, zone) ==
    LET d == DateOf(iso)
    IN  IF d = <<>> THEN InvalidDay ELSE LocalDay(d[1], zone)

getCompletedDays(sessions, zone) ==
    { toLocalDateString(sessions[i].completedAt, zone) :
        i \in { j \in 1..Len(sessions) :
                   Truthy(sessions[j].completed) /\ Truthy(sessions[j].completedAt) } }

\* Array.from(days).sort()
RECURSIVE SortedDays(_)
SortedDays(days) ==
    IF days = {} THEN <<>>
    ELSE LET least == CHOOSE d \in days : \A e \in days : d <= e
         IN  <<least>> \o SortedDays(days \ {least})

\* The loop of lines 72-84 taking days any distance apart as consecutive.
RECURSIVE LongestLoopAnyGap(_, _, _, _)
LongestLoopAnyGap(sortedDays, i, streak, longestStreak) ==
    IF i > Len(sortedDays) THEN longestStreak
    ELSE LET prev == ParseDay(sortedDays[i - 1])
             curr == ParseDay(sortedDays[i])
             isOne == /\ prev # <<>>
                      /\ curr # <<>>
                      /\ Round(curr[1] - prev[1], HoursPerDay) >= 1
             streak2 == IF isOne THEN streak + 1 ELSE 1
             longest2 == IF streak2 > longestStreak THEN streak2 ELSE longestStreak
         IN  LongestLoopAnyGap(sortedDays, i + 1, streak2, longest2)

\* The loop of lines 72-84, from index i (1-based: sortedDays[i] is the
\* source's sortedDays[i - 1]).
RECURSIVE LongestLoop(_, _, _, _)
LongestLoop(sortedDays, i, streak, longestStreak) ==
    IF i > Len(sortedDays) THEN longestStreak
    ELSE LET prev == ParseDay(sortedDays[i - 1])
             curr == ParseDay(sortedDays[i])
             isOne == /\ prev # <<>>
                      /\ curr # <<>>
                      /\ Round(curr[1] - prev[1], HoursPerDay) = 1
             streak2 == IF isOne THEN streak + 1 ELSE 1
             longest2 == IF streak2 > longestStreak THEN streak2 ELSE longestStreak
         IN  LongestLoop(sortedDays, i + 1, streak2, longest2)

\* checkDate.setDate(checkDate.getDate() - 1): one local day earlier.
PreviousDay(checkDate) == checkDate - HoursPerDay

\* The loop of lines 102-110.
RECURSIVE CountBack(_, _, _, _)
CountBack(days, checkDate, zone, count) ==
    IF LocalDay(checkDate, zone) \in days
    THEN CountBack(days, PreviousDay(checkDate), zone, count + 1)
    ELSE count

recalculateStreaks(sessions, clock, zone) ==
    LET days == getCompletedDays(sessions, zone)
        longestStreak == LongestLoop(SortedDays(days), 2, 1, 1)
        todayStr == LocalDay(clock, zone)
        checkDate == ParseDay(todayStr)[1]
        yesterday == PreviousDay(checkDate)
    IN  IF days = {} THEN [currentStreak |-> 0, longestStreak |-> 0]
        ELSE IF todayStr \in days
        THEN [currentStreak |-> CountBack(days, checkDate, zone, 0),
              longestStreak |-> longestStreak]
        ELSE IF LocalDay(yesterday, zone) \notin days
        THEN [currentStreak |-> 0, longestStreak |-> longestStreak]
        ELSE [currentStreak |-> CountBack(days, yesterday, zone, 0),
              longestStreak |-> longestStreak]

\* A saveSession that stores the streaks it found.
saveSessionKeepsStreaks(stored, session, clock, zone) ==
    LET data == loadData(stored)
    IN  [sessions |-> Append(data.sessions, session),
         currentStreak |-> data.currentStreak,
         longestStreak |-> data.longestStreak]

\* A saveSession that puts the session at the head of the list.
saveSessionInFront(stored, session, clock, zone) ==
    LET data == loadData(stored)
        sessions == <<session>> \o data.sessions
        streaks == recalculateStreaks(sessions, clock, zone)
    IN  [sessions |-> sessions,
         currentStreak |-> streaks.currentStreak,
         longestStreak |-> streaks.longestStreak]

saveSession(stored, session, clock, zone) ==
    LET data == loadData(stored)
        sessions == Append(data.sessions, session)
        streaks == recalculateStreaks(sessions, clock, zone)
    IN  [sessions |-> sessions,
         currentStreak |-> streaks.currentStreak,
         longestStreak |-> streaks.longestStreak]

\* --- importData (lines 164-215) ---
\* What JSON.parse made of the file: Unparseable when it throws, else a
\* value.  An object carries its properties as fields, an array its items.
Unparseable == [t |-> "unparseable"]
Arr(items) == [t |-> "array", items |-> items]
Bundle(sessions) == [t |-> "object", sessions |-> sessions]

Nullish(x) == x.t \in {"null", "undefined"}

\* x.f of a value x that is neither null nor undefined.
Prop(x, f) == IF x.t = "object" /\ f \in DOMAIN x THEN x[f] ELSE Undefined

\* The negation of the condition of line 180.
ValidEntry(s) ==
    /\ Truthy(Prop(s, "id"))
    /\ Truthy(Prop(s, "startTime"))
    /\ Prop(s, "duration").t = "number"
    /\ Prop(s, "completed").t = "boolean"

\* A validation that looks at the first entry only.
ValidateLoopFirstOnly(items, i) ==
    IF i > Len(items) THEN "ok"
    ELSE IF Nullish(items[i]) THEN "throws"
    ELSE IF ~ValidEntry(items[i]) THEN "invalid"
    ELSE "ok"

\* The validation loop of lines 179-183 from index i: "ok", "invalid" (the
\* early return) or "throws" (a property read of null).
RECURSIVE ValidateLoop(_, _)
ValidateLoop(items, i) ==
    IF i > Len(items) THEN "ok"
    ELSE IF Nullish(items[i]) THEN "throws"
    ELSE IF ~ValidEntry(items[i]) THEN "invalid"
    ELSE ValidateLoop(items, i + 1)

\* The copy pushed at lines 194-202.
NormalizedCopy(s) ==
    [id |-> Prop(s, "id"),
     startTime |-> Prop(s, "startTime"),
     duration |-> Prop(s, "duration"),
     completed |-> Prop(s, "completed"),
     completedAt |-> OrElse(Prop(s, "completedAt"), Null),
     failedAttentionCheck |-> OrElse(Prop(s, "failedAttentionCheck"), Bool(FALSE)),
     attentionChecksResponded |-> OrElse(Prop(s, "attentionChecksResponded"), Num(0))]

\* The merge loop of lines 190-205 from index i.  existingIds is built once,
\* before the loop, and not added to.
RECURSIVE MergeLoop(_, _, _, _)
MergeLoop(items, i, existingIds, acc) ==
    IF i > Len(items) THEN acc
    ELSE IF SetHas(existingIds, Prop(items[i], "id"))
    THEN MergeLoop(items, i + 1, existingIds, [acc EXCEPT !.skipped = @ + 1])
    ELSE MergeLoop(items, i + 1, existingIds,
                   [acc EXCEPT !.sessions = Append(@, NormalizedCopy(items[i])),
                               !.imported = @ + 1])

\* importData on the parsed file.  threw: an exception left the function
\* (nothing was returned); stored: localStorage afterwards.
importData(stored, parsed, clock, zone) ==
    LET refuse(msg) == [threw |-> FALSE, success |-> FALSE, message |-> msg,
                        stored |-> stored]
        throw == [threw |-> TRUE, success |-> FALSE, message |-> <<>>,
                  stored |-> stored]
        list == Prop(parsed, "sessions")
        data == loadData(stored)
        existingIds == { data.sessions[i].id : i \in 1..Len(data.sessions) }
        merged == MergeLoop(list.items, 1, existingIds,
                            [sessions |-> data.sessions, imported |-> 0, skipped |-> 0])
        streaks == recalculateStreaks(merged.sessions, clock, zone)
    IN  IF parsed.t = "unparseable" THEN refuse(<<4>>)
        ELSE IF Nullish(parsed) THEN throw
        ELSE IF ~Truthy(list) \/ list.t # "array" THEN refuse(<<5>>)
        ELSE CASE ValidateLoop(list.items, 1) = "throws" -> throw
               [] ValidateLoop(list.items, 1) = "invalid" -> refuse(<<5>>)
               [] OTHER ->
                    [threw |-> FALSE, success |-> TRUE,
                     message |-> <<3, merged.imported, merged.skipped>>,
                     stored |-> saveData([sessions |-> merged.sessions,
                                          currentStreak |-> streaks.currentStreak,
                                          longestStreak |-> streaks.longestStreak])]


\* The sum of f over the sessions, as reduce computes it.
RECURSIVE Reduce(_, _)
Reduce(sessions, f) ==
    IF sessions = <<>> THEN 0
    ELSE Reduce(SubSeq(sessions, 1, Len(sessions) - 1), f) + sessions[Len(sessions)][f].v

\* exportData at the instant clock, as JSON.parse reads its text back.  The
\* quotient of line 157 is kept as its dividend and its divisor.
exportData(stored, clock) ==
    LET data == loadData(stored)
        Filter(Keep(_)) == SelectSeq(data.sessions, Keep)
        IsCompleted(x) == Truthy(x.completed)
        IsFailed(x) == ~Truthy(x.completed)
        FailedCheck(x) == Truthy(x.failedAttentionCheck)
        completedSessions == Filter(IsCompleted)
        failedSessions == Filter(IsFailed)
        totalMinutes == Reduce(completedSessions, "duration")
        totalChecks == Reduce(data.sessions, "attentionChecksResponded")
        failedChecks == Len(Filter(FailedCheck))
    IN  [t |-> "object",
         version |-> Str(<<49, 46, 48>>),
         exportedAt |-> Str(toISOString(clock)),
         sessions |-> Arr([i \in 1..Len(data.sessions) |->
                              [t |-> "object"] @@ data.sessions[i]]),
         stats |-> [t |-> "object",
                    totalSessions |-> Num(Len(data.sessions)),
                    completedSessions |-> Num(Len(completedSessions)),
                    failedSessions |-> Num(Len(failedSessions)),
                    currentStreak |-> Num(data.currentStreak),
                    longestStreak |-> Num(data.longestStreak),
                    totalMinutes |-> Num(totalMinutes),
                    attentionCheckSuccessRate |->
                        IF totalChecks > 0
                        THEN [t |-> "number", dividend |-> totalChecks - failedChecks,
                              divisor |-> totalChecks]
                        ELSE Num(1)]]

\* String(n) for a whole number n >= 0: its decimal digits, as character codes.
RECURSIVE String(_)
String(n) == IF n < 10 THEN <<48 + n>> ELSE String(n \div 10) \o <<48 + (n % 10)>>

IsDigit(c) == c >= 48 /\ c <= 57

\* The value of the longest run of digits that text starts with at index i,
\* given the value acc of the digits read so far.
RECURSIVE DigitRun(_, _, _)
DigitRun(text, i, acc) ==
    IF i <= Len(text) /\ IsDigit(text[i])
    THEN DigitRun(text, i + 1, 10 * acc + (text[i] - 48))
    ELSE acc

\* parseInt(text, 10): <<n>>, or <<>> for NaN.  45 is "-", 43 is "+".
parseInt(text) ==
    LET signed == text # <<>> /\ text[1] \in {45, 43}
        first == IF signed THEN 2 ELSE 1
        value == DigitRun(text, first, 0)
    IN  IF first > Len(text) \/ ~IsDigit(text[first]) THEN <<>>
        ELSE IF signed /\ text[1] = 45 THEN <<0 - value>> ELSE <<value>>

\* raw is localStorage.getItem's result: <<>> for null, else <<text>>.
getLastDuration(raw) ==
    LET n == IF raw # <<>> /\ raw[1] # <<>> THEN parseInt(raw[1]) ELSE <<>>
    IN  IF n # <<>> /\ n[1] >= MinDuration /\ n[1] <= MaxDuration
        THEN n[1]
        ELSE DefaultDuration

setLastDuration(minutes) == <<String(minutes)>>

-----------------------------------------------------------------------------
(* The browser's timers *)

\* The component and its environment as one record, so that a handler is the
\* composition of the functions it calls.
Machine ==
    [state |-> state, durationMinutes |-> durationMinutes,
     remainingSeconds |-> remainingSeconds,
     attentionChecksResponded |-> attentionChecksResponded,
     sessionStartTime |-> sessionStartTime, timerInterval |-> timerInterval,
     attentionTimeout |-> attentionTimeout,
     attentionBarInterval |-> attentionBarInterval,
     nextAttentionCheck |-> nextAttentionCheck, completedDays |-> completedDays,
     currentStreak |-> currentStreak, touchStartY |-> touchStartY,
     touchAccumulated |-> touchAccumulated, importMessage |-> importMessage,
     timers |-> timers, storedData |-> storedData, lastDuration |-> lastDuration,
     uuids |-> uuids, now |-> now, tz |-> tz, importMessageTimeout |-> importMessageTimeout]

Becomes(m) ==
    /\ state' = m.state
    /\ durationMinutes' = m.durationMinutes
    /\ remainingSeconds' = m.remainingSeconds
    /\ attentionChecksResponded' = m.attentionChecksResponded
    /\ sessionStartTime' = m.sessionStartTime
    /\ timerInterval' = m.timerInterval
    /\ attentionTimeout' = m.attentionTimeout
    /\ attentionBarInterval' = m.attentionBarInterval
    /\ nextAttentionCheck' = m.nextAttentionCheck
    /\ completedDays' = m.completedDays
    /\ currentStreak' = m.currentStreak
    /\ touchStartY' = m.touchStartY
    /\ touchAccumulated' = m.touchAccumulated
    /\ importMessage' = m.importMessage
    /\ timers' = m.timers
    /\ storedData' = m.storedData
    /\ lastDuration' = m.lastDuration
    /\ uuids' = m.uuids
    /\ now' = m.now
    /\ tz' = m.tz
    /\ importMessageTimeout' = m.importMessageTimeout

\* A pending timer: its handle, its callback ("tick", "bar" or "fail") and,
\* for the failure timeout, how many one-second ticks have fired since it
\* was set.
Timer(id, cb) == [id |-> id, cb |-> cb, age |-> 0]

\* The handle setInterval/setTimeout returns: one that names no pending
\* timer and that no variable of the component still holds.
FreshTimer(m) ==
    LET used == { tm.id : tm \in m.timers }
                  \cup {m.timerInterval, m.attentionTimeout, m.attentionBarInterval}
    IN  CHOOSE i \in 1..MaxTimerId : i \notin used /\ \A j \in 1..(i - 1) : j \in used

\* clearInterval(id) / clearTimeout(id): a no-op on a handle that names no
\* pending timer.
clearTimer(pending, id) == { tm \in pending : tm.id # id }

-----------------------------------------------------------------------------
(* src/README.md: the component *)

\* A draw without its minimum.
scheduleWithoutMinimum(m, random) ==
    [m EXCEPT !.nextAttentionCheck = random]

scheduleNextAttentionCheck(m, random) ==
    [m EXCEPT !.nextAttentionCheck = MinCheckInterval + random]

clearAttentionCheck(m) ==
    LET m1 == IF m.attentionTimeout # NoTimer
              THEN [m EXCEPT !.timers = clearTimer(@, m.attentionTimeout),
                             !.attentionTimeout = NoTimer]
              ELSE m
    IN  IF m1.attentionBarInterval # NoTimer
        THEN [m1 EXCEPT !.timers = clearTimer(@, m1.attentionBarInterval),
                        !.attentionBarInterval = NoTimer]
        ELSE m1

\* cleanup without its call of clearAttentionCheck.
cleanupKeepsCheck(m) ==
    IF m.timerInterval # NoTimer
    THEN [m EXCEPT !.timers = clearTimer(@, m.timerInterval),
                   !.timerInterval = NoTimer]
    ELSE m

cleanup(m) ==
    LET m1 == IF m.timerInterval # NoTimer
              THEN [m EXCEPT !.timers = clearTimer(@, m.timerInterval),
                             !.timerInterval = NoTimer]
              ELSE m
    IN  clearAttentionCheck(m1)

triggerAttentionCheck(m) ==
    LET bar == FreshTimer(m)
        m1 == [m EXCEPT !.state = "attention-check",
                        !.timers = @ \cup {Timer(bar, "bar")},
                        !.attentionBarInterval = bar]
        fail == FreshTimer(m1)
    IN  [m1 EXCEPT !.timers = @ \cup {Timer(fail, "fail")},
                   !.attentionTimeout = fail]

completeTimer(m) == [cleanup(m) EXCEPT !.state = "completed"]

\* The record failSession builds (lines 242-250).
FailedSession(m) ==
    [id |-> Str(Uuid(m.uuids + 1)),
     startTime |-> Str(m.sessionStartTime),
     duration |-> Num(m.durationMinutes),
     completed |-> Bool(FALSE),
     completedAt |-> Null,
     failedAttentionCheck |-> Bool(TRUE),
     attentionChecksResponded |-> Num(m.attentionChecksResponded)]

\* saveSession(session) followed by the two assignments that every caller
\* makes from its result (lines 252-254, 272-274).
Saved(m, session) ==
    LET data == saveSession(m.storedData, session, m.now, m.tz)
    IN  [m EXCEPT !.storedData = saveData(data),
                  !.uuids = @ + 1,
                  !.completedDays = getCompletedDays(data.sessions, m.tz),
                  !.currentStreak = data.currentStreak]

\* A failSession without its call of cleanup: the tick interval stays.
failSessionKeepsTick(m) ==
    LET m1 == clearAttentionCheck(m)
        m2 == Saved(m1, FailedSession(m1))
    IN  [m2 EXCEPT !.state = "failed",
                   !.remainingSeconds = m2.durationMinutes * SecondsPerMinute]

failSession(m) ==
    LET m1 == cleanup(clearAttentionCheck(m))
        m2 == Saved(m1, FailedSession(m1))
    IN  [m2 EXCEPT !.state = "failed",
                   !.remainingSeconds = m2.durationMinutes * SecondsPerMinute]

\* ConfirmedSession stamping completedAt whatever the answer.
ConfirmedSessionAlwaysStamped(m, stayedBored) ==
    [id |-> Str(Uuid(m.uuids + 1)),
     startTime |-> Str(m.sessionStartTime),
     duration |-> Num(m.durationMinutes),
     completed |-> Bool(stayedBored),
     completedAt |-> Str(toISOString(m.now)),
     failedAttentionCheck |-> Bool(FALSE),
     attentionChecksResponded |-> Num(m.attentionChecksResponded)]

\* The record confirmCompletion builds (lines 262-270).
ConfirmedSession(m, stayedBored) ==
    [id |-> Str(Uuid(m.uuids + 1)),
     startTime |-> Str(m.sessionStartTime),
     duration |-> Num(m.durationMinutes),
     completed |-> Bool(stayedBored),
     completedAt |-> IF stayedBored THEN Str(toISOString(m.now)) ELSE Null,
     failedAttentionCheck |-> Bool(FALSE),
     attentionChecksResponded |-> Num(m.attentionChecksResponded)]

confirmCompletion(m, stayedBored) ==
    LET m1 == Saved(m, ConfirmedSession(m, stayedBored))
    IN  [m1 EXCEPT !.state = "idle",
                   !.remainingSeconds = m1.durationMinutes * SecondsPerMinute]

dismissFailed(m) ==
    [m EXCEPT !.state = "idle",
              !.remainingSeconds = m.durationMinutes * SecondsPerMinute]

\* A response that leaves the check's timers as they are.
respondKeepsTimers(m, random) ==
    IF m.state # "attention-check" THEN m
    ELSE LET m1 == [m EXCEPT !.attentionChecksResponded = @ + 1]
             m2 == [m1 EXCEPT !.state = "running"]
         IN  scheduleNextAttentionCheck(m2, random)

respondToAttentionCheck(m, random) ==
    IF m.state # "attention-check" THEN m
    ELSE LET m1 == [m EXCEPT !.attentionChecksResponded = @ + 1]
             m2 == [clearAttentionCheck(m1) EXCEPT !.state = "running"]
         IN  scheduleNextAttentionCheck(m2, random)

\* A tick callback that lets the countdown rest while a check is shown.
tickCallbackPausedByCheck(m) ==
    IF m.state = "attention-check" THEN m
    ELSE LET m1 == [m EXCEPT !.remainingSeconds = @ - 1,
                             !.nextAttentionCheck = @ - 1]
             m2 == IF m1.nextAttentionCheck <= 0 /\ m1.state = "running"
                   THEN triggerAttentionCheck(m1)
                   ELSE m1
         IN  IF m2.remainingSeconds <= 0
             THEN completeTimer([m2 EXCEPT !.remainingSeconds = 0])
             ELSE m2

\* The setInterval callback of startSession (lines 172-185).
tickCallback(m) ==
    LET m1 == [m EXCEPT !.remainingSeconds = @ - 1,
                        !.nextAttentionCheck = @ - 1]
        m2 == IF m1.nextAttentionCheck <= 0 /\ m1.state = "running"
              THEN triggerAttentionCheck(m1)
              ELSE m1
    IN  IF m2.remainingSeconds <= 0
        THEN completeTimer([m2 EXCEPT !.remainingSeconds = 0])
        ELSE m2

startSession(m, random) ==
    LET m1 == [m EXCEPT !.state = "running",
                        !.sessionStartTime = toISOString(m.now),
                        !.attentionChecksResponded = 0,
                        !.remainingSeconds = m.durationMinutes * SecondsPerMinute]
        m2 == scheduleNextAttentionCheck(m1, random)
        tick == FreshTimer(m2)
    IN  [m2 EXCEPT !.timers = @ \cup {Timer(tick, "tick")},
                   !.timerInterval = tick]

\* handleAction starting a session over when one is running.
handleActionRestarts(m, random) ==
    CASE m.state = "idle" -> startSession(m, random)
      [] m.state = "running" -> startSession(cleanup(m), random)
      [] m.state = "attention-check" -> respondToAttentionCheck(m, random)
      [] OTHER -> m

\* handleAction, and handleClick and the Space key that call it.
handleAction(m, random) ==
    CASE m.state = "idle" -> startSession(m, random)
      [] m.state = "running" -> m
      [] m.state = "attention-check" -> respondToAttentionCheck(m, random)
      [] OTHER -> m

\* handleWheel without its guard on the state.
handleWheelAnyState(m, deltaY) ==
    LET d == IF deltaY < 0
             THEN (IF m.durationMinutes + 1 < MaxDuration
                   THEN m.durationMinutes + 1 ELSE MaxDuration)
             ELSE (IF m.durationMinutes - 1 > MinDuration
                   THEN m.durationMinutes - 1 ELSE MinDuration)
    IN  [m EXCEPT !.durationMinutes = d,
                  !.remainingSeconds = d * SecondsPerMinute,
                  !.lastDuration = setLastDuration(d)]

\* deltaY < 0 scrolls up.
handleWheel(m, deltaY) ==
    IF m.state # "idle" THEN m
    ELSE LET d == IF deltaY < 0
                  THEN (IF m.durationMinutes + 1 < MaxDuration
                        THEN m.durationMinutes + 1 ELSE MaxDuration)
                  ELSE (IF m.durationMinutes - 1 > MinDuration
                        THEN m.durationMinutes - 1 ELSE MinDuration)
         IN  [m EXCEPT !.durationMinutes = d,
                       !.remainingSeconds = d * SecondsPerMinute,
                       !.lastDuration = setLastDuration(d)]

handleTouchStart(m, clientY) ==
    IF m.state # "idle" THEN m
    ELSE [m EXCEPT !.touchStartY = clientY, !.touchAccumulated = 0]

\* Math.trunc(a / b) for b > 0.
Trunc(a, b) == IF a >= 0 THEN a \div b ELSE 0 - ((0 - a) \div b)

\* handleTouchMove clamping from below only.
handleTouchMoveNoCeiling(m, clientY) ==
    IF m.state # "idle" THEN m
    ELSE LET deltaY == m.touchStartY - clientY
             acc == m.touchAccumulated + deltaY
             steps == Trunc(acc, TouchStepPx)
             raised == m.durationMinutes + steps
             d == IF raised > MinDuration THEN raised ELSE MinDuration
             m1 == [m EXCEPT !.touchAccumulated = acc, !.touchStartY = clientY]
         IN  IF steps # 0
             THEN [m1 EXCEPT !.touchAccumulated = acc - steps * TouchStepPx,
                             !.durationMinutes = d,
                             !.remainingSeconds = d * SecondsPerMinute,
                             !.lastDuration = setLastDuration(d)]
             ELSE m1

handleTouchMove(m, clientY) ==
    IF m.state # "idle" THEN m
    ELSE LET deltaY == m.touchStartY - clientY
             acc == m.touchAccumulated + deltaY
             steps == Trunc(acc, TouchStepPx)
             raised == m.durationMinutes + steps
             lower == IF raised > MinDuration THEN raised ELSE MinDuration
             d == IF lower < MaxDuration THEN lower ELSE MaxDuration
             m1 == [m EXCEPT !.touchAccumulated = acc, !.touchStartY = clientY]
         IN  IF steps # 0
             THEN [m1 EXCEPT !.touchAccumulated = acc - steps * TouchStepPx,
                             !.durationMinutes = d,
                             !.remainingSeconds = d * SecondsPerMinute,
                             !.lastDuration = setLastDuration(d)]
             ELSE m1

\* init (lines 71-79), on the data found in storage.
init(m) ==
    LET data == loadData(m.storedData)
        d == getLastDuration(m.lastDuration)
    IN  [m EXCEPT !.completedDays = getCompletedDays(data.sessions, m.tz),
                  !.currentStreak =
                      recalculateStreaks(data.sessions, m.now, m.tz).currentStreak,
                  !.durationMinutes = d,
                  !.remainingSeconds = d * SecondsPerMinute]

\* showImportMessage (lines 342-349).
showImportMessage(m, msg) ==
    [m EXCEPT !.importMessage = msg, !.importMessageTimeout = TRUE]

\* reader.onload of handleFileChange (lines 325-334), parsed being what
\* JSON.parse makes of the file's text.  An exception thrown by importData
\* leaves the callback before anything is assigned.
readerOnload(m, parsed) ==
    LET result == importData(m.storedData, parsed, m.now, m.tz)
        data == loadData(result.stored)
        m1 == showImportMessage([m EXCEPT !.storedData = result.stored],
                                result.message)
    IN  IF result.threw THEN m
        ELSE IF result.success
        THEN [m1 EXCEPT !.completedDays = getCompletedDays(data.sessions, m.tz),
                        !.currentStreak = data.currentStreak]
        ELSE m1

\* reader.onerror of handleFileChange (lines 335-337).
readerOnerror(m) == showImportMessage(m, <<6>>)

-----------------------------------------------------------------------------
(* The inputs the environment chooses *)

\* The values of Math.floor(Math.random() * 91) explored: both ends of its
\* range, and the draws that put the first check of a one-minute session 10,
\* 5 and 0 seconds before its end.
Randoms == {0, 20, 25, 30, CheckIntervalSpan - 1}
\* WheelEvent.deltaY.
WheelDeltas == {0 - 1, 0, 1}
\* Touch.clientY.
TouchYs == {0, 45, 700}
\* The UTC offsets of the viewer's timezone, in hours.
TimeZones == {0 - 5, 0, 2}
\* The first instant: 03:00 UTC on day 2.
FirstInstant == 2 * HoursPerDay + 3
\* By how many hours the clock is advanced at once.
ClockSteps == {33, 48}
\* What localStorage holds under 'boredom-last-duration' when the page is
\* opened: nothing, "", "x", "0", "1", "60", "61", "-5", "12x".
StoredDurations ==
    { <<>>, << <<>> >>, << <<120>> >>, << <<48>> >>, << <<49>> >>, << <<54, 48>> >>,
      << <<54, 49>> >>, << <<45, 53>> >>, << <<49, 50, 120>> >> }

StoredSessions == loadData(storedData).sessions

-----------------------------------------------------------------------------
(* The state after construction: the declarations of lines 41-68 and         *)
(* 119-120, then init() run by the mount effect (lines 81-82).               *)

Declared(raw, zone) ==
    [state |-> "idle", durationMinutes |-> DefaultDuration, remainingSeconds |-> 0,
     attentionChecksResponded |-> 0, sessionStartTime |-> <<>>,
     timerInterval |-> NoTimer, attentionTimeout |-> NoTimer,
     attentionBarInterval |-> NoTimer, nextAttentionCheck |-> 0,
     completedDays |-> {}, currentStreak |-> 0, touchStartY |-> 0,
     touchAccumulated |-> 0, importMessage |-> <<>>,
     timers |-> {}, storedData |-> <<>>, lastDuration |-> raw,
     uuids |-> 0, now |-> FirstInstant, tz |-> zone, importMessageTimeout |-> FALSE]

Mounted(m) ==
    /\ state = m.state
    /\ durationMinutes = m.durationMinutes
    /\ remainingSeconds = m.remainingSeconds
    /\ attentionChecksResponded = m.attentionChecksResponded
    /\ sessionStartTime = m.sessionStartTime
    /\ timerInterval = m.timerInterval
    /\ attentionTimeout = m.attentionTimeout
    /\ attentionBarInterval = m.attentionBarInterval
    /\ nextAttentionCheck = m.nextAttentionCheck
    /\ completedDays = m.completedDays
    /\ currentStreak = m.currentStreak
    /\ touchStartY = m.touchStartY
    /\ touchAccumulated = m.touchAccumulated
    /\ importMessage = m.importMessage
    /\ timers = m.timers
    /\ storedData = m.storedData
    /\ lastDuration = m.lastDuration
    /\ uuids = m.uuids
    /\ now = m.now
    /\ tz = m.tz
    /\ importMessageTimeout = m.importMessageTimeout

\* The page is opened on an empty store, by a viewer on UTC.  (SpecStore
\* opens it in every timezone of TimeZones.)
Init == \E raw \in StoredDurations : Mounted(init(Declared(raw, 0)))

-----------------------------------------------------------------------------
(* The events *)

\* The store has room for the record of one more session.
Room == Len(StoredSessions) < MaxSessions

\* A click or the Space key.  Math.random is drawn from only where the
\* handler calls it: on a start and on a response.
HandleAction ==
    \/ /\ state \in {"idle", "attention-check"}
       /\ \E random \in Randoms : Becomes(handleAction(Machine, random))
    \/ /\ state \notin {"idle", "attention-check"}
       /\ Becomes(handleAction(Machine, 0))

\* The wheel is turned.  Outside idle the handler returns before it reads
\* the event.
HandleWheel ==
    \/ /\ state = "idle"
       /\ \E deltaY \in WheelDeltas : Becomes(handleWheel(Machine, deltaY))
    \/ /\ state # "idle"
       /\ Becomes(handleWheel(Machine, 0))

HandleTouchStart ==
    \/ /\ state = "idle"
       /\ \E clientY \in TouchYs : Becomes(handleTouchStart(Machine, clientY))
    \/ /\ state # "idle"
       /\ Becomes(handleTouchStart(Machine, 0))

HandleTouchMove ==
    \/ /\ state = "idle"
       /\ \E clientY \in TouchYs : Becomes(handleTouchMove(Machine, clientY))
    \/ /\ state # "idle"
       /\ Becomes(handleTouchMove(Machine, 0))

\* The failure timeouts a tick finds pending have seen one more tick.
Aged(pending) ==
    { IF tm.cb = "fail" THEN [tm EXCEPT !.age = @ + 1] ELSE tm : tm \in pending }

\* The one-second interval fires.  It fires at most WindowTicks times while
\* a failure timeout is pending: the timeout then fires first.
Tick ==
    /\ \E tm \in timers : tm.cb = "tick"
    /\ \A tm \in timers : tm.cb = "fail" => tm.age < WindowTicks
    /\ Becomes(tickCallback([Machine EXCEPT !.timers = Aged(@)]))

\* The 50 ms progress interval fires: it writes attentionProgress only.
BarTick ==
    /\ \E tm \in timers : tm.cb = "bar"
    /\ Becomes(Machine)

\* The 10-second failure timeout fires, after any number of ticks up to
\* WindowTicks: a timeout is no longer pending once it has fired.
FailTimeout ==
    \E tm \in timers :
        /\ tm.cb = "fail"
        /\ Becomes(failSession([Machine EXCEPT !.timers = @ \ {tm}]))

\* One of the two buttons shown in state completed.
ConfirmCompletion ==
    /\ state = "completed"
    /\ \E stayedBored \in BOOLEAN : Becomes(confirmCompletion(Machine, stayedBored))

\* The OK button shown in state failed.
DismissFailed ==
    /\ state = "failed"
    /\ Becomes(dismissFailed(Machine))

\* Time passes.  No step taken in state running reads the clock, so the
\* clock's advance is placed after the state has left running.
AdvanceClock ==
    /\ \E step \in ClockSteps :
           /\ now + step <= MaxNow
           /\ Becomes([Machine EXCEPT !.now = @ + step])

\* A touch gesture made while a session is under way.  (SpecAdjust explores
\* the gestures made in idle; here touchStartY and touchAccumulated, which no
\* timer callback reads, keep their first values when a session starts.)
TouchDuringSession ==
    /\ state # "idle"
    /\ (HandleTouchStart \/ HandleTouchMove)

\* The sessions, tick by tick, at one instant of the clock.  A session is
\* started only when it is short enough for its ticks to be explored, and
\* once the store is full the idle page is where the exploration stops.
Next ==
    \/ (state = "idle" => Room /\ durationMinutes <= MaxTickMinutes) /\ HandleAction
    \/ (state = "idle" => Room) /\ HandleWheel
    \/ TouchDuringSession
    \/ Tick
    \/ BarTick
    \/ FailTimeout
    \/ ConfirmCompletion
    \/ DismissFailed

Spec == Init /\ [][Next]_vars

\* When Tick and FailTimeout can fire: their guards.
TickDue ==
    /\ \E tm \in timers : tm.cb = "tick"
    /\ \A tm \in timers : tm.cb = "fail" => tm.age < WindowTicks
FailPending == \E tm \in timers : tm.cb = "fail"

\* The same under the browser's timers: an interval that is not cleared
\* fires again, a timeout that is not cleared fires.  These are
\* WF_vars(Tick) and WF_vars(FailTimeout), with ENABLED written out as the
\* guard of the action.
SpecFair ==
    /\ Spec
    /\ ([]<>~TickDue \/ []<><<Tick>>_vars)
    /\ ([]<>~FailPending \/ []<><<FailTimeout>>_vars)

\* The duration adjustments: wheel and touch in idle, up to the start of a
\* session of any duration, and after it.  No timer fires.
NextAdjust ==
    \/ state = "idle" /\ HandleAction
    \/ HandleWheel
    \/ HandleTouchStart
    \/ HandleTouchMove

SpecAdjust == Init /\ [][NextAdjust]_vars

-----------------------------------------------------------------------------
(* The store under whole sessions, the clock and imports.  A session is     *)
(* taken here as one step, from the start action to the record it leaves;   *)
(* Spec explores its ticks.  A file is read and imported in one step.       *)

\* How many attention checks a session answered.
Responses == {0}
\* How a session ends: confirmed as stayed bored, confirmed as distracted,
\* or failed on an unanswered check.
Outcomes == {"stayed", "distracted", "failed"}

\* Session entries of import files.  97 is "a", 98 is "b".
EntryA ==
    [t |-> "object", id |-> Str(<<97>>), startTime |-> Str(toISOString(12)),
     duration |-> Num(5), completed |-> Bool(TRUE),
     completedAt |-> Str(toISOString(12)), failedAttentionCheck |-> Bool(FALSE),
     attentionChecksResponded |-> Num(0)]
EntryB ==
    [t |-> "object", id |-> Str(<<98>>), startTime |-> Str(toISOString(36)),
     duration |-> Num(5), completed |-> Bool(TRUE),
     completedAt |-> Str(toISOString(36)), failedAttentionCheck |-> Bool(FALSE),
     attentionChecksResponded |-> Num(1)]
\* {"id": {}, "startTime": ..., "duration": 1, "completed": false}
EntryObjectId ==
    [t |-> "object", id |-> Obj, startTime |-> Str(toISOString(60)),
     duration |-> Num(1), completed |-> Bool(FALSE)]
\* An entry without its duration.
EntryNoDuration ==
    [t |-> "object", id |-> Str(<<98>>), startTime |-> Str(toISOString(36)),
     completed |-> Bool(FALSE)]
\* Entries without an id, without a start time, and with "completed": "yes"
\* (121 101 115).
EntryNoId ==
    [t |-> "object", startTime |-> Str(toISOString(36)), duration |-> Num(5),
     completed |-> Bool(FALSE)]
EntryNoStartTime ==
    [t |-> "object", id |-> Str(<<98>>), duration |-> Num(5),
     completed |-> Bool(FALSE)]
EntryCompletedText ==
    [t |-> "object", id |-> Str(<<98>>), startTime |-> Str(toISOString(36)),
     duration |-> Num(5), completed |-> Str(<<121, 101, 115>>)]
\* {"id": "c", "startTime": ..., "duration": 5, "completed": true,
\*  "failedAttentionCheck": true}: completed, without the instant of its
\* completion, and failed on a check as well.  99 is "c".
EntryUnstamped ==
    [t |-> "object", id |-> Str(<<99>>), startTime |-> Str(toISOString(60)),
     duration |-> Num(5), completed |-> Bool(TRUE),
     failedAttentionCheck |-> Bool(TRUE)]

\* What JSON.parse makes of the files handed to the import.
Bundles ==
    { Unparseable,
      Null,
      [t |-> "object"],
      Bundle(Arr(<<EntryA>>)),
      Bundle(Arr(<<EntryA, EntryB>>)),
      Bundle(Arr(<<EntryB, EntryA>>)),
      Bundle(Arr(<<EntryObjectId>>)),
      Bundle(Arr(<<EntryA, EntryNoDuration>>)) }

\* Files written by hand: a number, a sessions key that is a string, the
\* same entry twice, entries short of a field, entries that are no objects.
HandMadeBundles ==
    { Num(5),
      [t |-> "object", sessions |-> Str(<<97>>)],
      Bundle(Arr(<<EntryA, EntryA>>)),
      Bundle(Arr(<<EntryUnstamped>>)),
      Bundle(Arr(<<EntryNoId>>)),
      Bundle(Arr(<<EntryNoStartTime>>)),
      Bundle(Arr(<<EntryCompletedText>>)),
      Bundle(Arr(<<Num(7)>>)),
      Bundle(Arr(<<Null>>)),
      Bundle(Arr(<<EntryA, Null>>)) }

AnyBundles == Bundles \cup HandMadeBundles

InitStore == \E zone \in TimeZones : Mounted(init(Declared(<<>>, zone)))

\* A whole session: started, then either counted down and confirmed, or
\* failed on its check and dismissed.
RunSession(m, outcome, responded) ==
    LET started == [startSession(m, 0) EXCEPT !.attentionChecksResponded = responded]
    IN  IF outcome = "failed"
        THEN dismissFailed(failSession(triggerAttentionCheck(started)))
        ELSE confirmCompletion(completeTimer([started EXCEPT !.remainingSeconds = 0]),
                               outcome = "stayed")

SessionEnds ==
    /\ Len(StoredSessions) < MaxStored
    /\ \E outcome \in Outcomes, responded \in Responses :
           Becomes(RunSession(Machine, outcome, responded))

\* handleFileChange (lines 319-340) with a file chosen: the reader loads it,
\* or fails to.
HandleFileChange ==
    \/ \E parsed \in Bundles :
           /\ Len(loadData(readerOnload(Machine, parsed).storedData).sessions) <= MaxStored
           /\ Becomes(readerOnload(Machine, parsed))
    \/ Becomes(readerOnerror(Machine))

\* The callback of the timeout set by showImportMessage (lines 346-348).
MessageTimeout ==
    /\ importMessageTimeout
    /\ Becomes([Machine EXCEPT !.importMessage = <<>>,
                               !.importMessageTimeout = FALSE])

NextStore ==
    \/ SessionEnds
    \/ AdvanceClock
    \/ HandleFileChange
    \/ MessageTimeout

SpecStore == InitStore /\ [][NextStore]_vars

(* The store under any file.  The sessions answer up to one check, the      *)
(* files are the hand-made ones as well, and the list is kept shorter.      *)

\* How many attention checks a session answered, here; a session that
\* answered one is taken to the check it fails.
Answers == {0, 1}

SessionEndsAnswering ==
    /\ Len(StoredSessions) < MaxKept
    /\ \E outcome \in Outcomes, responded \in Answers :
           /\ responded = 0 \/ outcome = "failed"
           /\ Becomes(RunSession(Machine, outcome, responded))

\* handleFileChange (lines 319-340) with any of the files.
HandleAnyFile ==
    \/ \E parsed \in AnyBundles :
           /\ Len(loadData(readerOnload(Machine, parsed).storedData).sessions) <= MaxKept
           /\ Becomes(readerOnload(Machine, parsed))
    \/ Becomes(readerOnerror(Machine))

NextFiles ==
    \/ SessionEndsAnswering
    \/ AdvanceClock
    \/ HandleAnyFile
    \/ MessageTimeout

SpecFiles == InitStore /\ [][NextFiles]_vars

-----------------------------------------------------------------------------
(* The claims about the session controller *)

\* The sessions list after a step holds one record more than before it.
AppendsOne == /\ Len(StoredSessions') = Len(StoredSessions) + 1
              /\ SubSeq(StoredSessions', 1, Len(StoredSessions)) = StoredSessions

\* The record a step has appended.
Appended == StoredSessions'[Len(StoredSessions')]

\* C1 (as claimed): an attention check that no response ends (the state
\* leaves attention-check otherwise than to running) ends in failed, with
\* exactly one record appended that has completed = false,
\* failedAttentionCheck = true, completedAt = null and the count of
\* responses so far, whatever countdown remained when the check began.
C1_UnansweredCheckFails ==
    [][(state = "attention-check" /\ state' \notin {"attention-check", "running"})
         => /\ state' = "failed"
            /\ AppendsOne
            /\ Appended.completed = Bool(FALSE)
            /\ Appended.failedAttentionCheck = Bool(TRUE)
            /\ Appended.completedAt = Null
            /\ Appended.attentionChecksResponded = Num(attentionChecksResponded)]_vars

\* C2 (as claimed): completed is entered only from running; an active
\* attention check ends only in running (a response) or in failed (the
\* timeout): the countdown reaching zero neither completes the session nor
\* cancels the pending failure timeout.
C2_CompletedOnlyFromRunning ==
    [][/\ (state' = "completed" /\ state # "completed") => state = "running"
       /\ state = "attention-check"
            => /\ state' \in {"attention-check", "running", "failed"}
               /\ state' = "attention-check"
                    => \E tm \in timers' : tm.cb = "fail" /\ tm.id = attentionTimeout']_vars

\* C3: whenever the state is idle, completed or failed, the browser holds no
\* pending timer of the component (no tick interval, no failure timeout, no
\* progress interval) and the component holds no timer handle: no callback
\* is left that could fire.
C3_NoTimerOutsideSession ==
    state \in {"idle", "completed", "failed"}
        => /\ timers = {}
           /\ timerInterval = NoTimer
           /\ attentionTimeout = NoTimer
           /\ attentionBarInterval = NoTimer

\* C3's case: the failure timeout has fired and failed the session.
C3_Witness ==
    /\ state = "failed"
    /\ timers = {}
    /\ Len(StoredSessions) = 1

\* C4: a start action in idle leads to running with remainingSeconds =
\* durationMinutes * 60, attentionChecksResponded = 0, the tick interval
\* pending and the first attention check scheduled 30 to 120 seconds ahead;
\* a start action in running, completed or failed changes nothing.
C4_Start ==
    [][/\ (state = "idle" /\ HandleAction)
            => /\ state' = "running"
               /\ remainingSeconds' = durationMinutes * SecondsPerMinute
               /\ durationMinutes' = durationMinutes
               /\ attentionChecksResponded' = 0
               /\ nextAttentionCheck' >= MinCheckInterval
               /\ nextAttentionCheck' < MinCheckInterval + CheckIntervalSpan
               /\ timers' = {Timer(timerInterval', "tick")}
       /\ (state \in {"running", "completed", "failed"} /\ HandleAction)
            => UNCHANGED vars
       /\ (state' = "running" /\ state \notin {"running", "attention-check"})
            => state = "idle" /\ HandleAction]_vars

\* C4's case: a session has just been started with the longest interval drawn.
C4_Witness ==
    /\ state = "running"
    /\ remainingSeconds = durationMinutes * SecondsPerMinute
    /\ nextAttentionCheck = MinCheckInterval + CheckIntervalSpan - 1
    /\ timers # {}

\* C5: entering completed leaves the store as it is; leaving completed (the
\* confirmation) appends exactly one record, returns to idle and resets
\* remainingSeconds to durationMinutes * 60.  The record carries the
\* session's duration and response count, failedAttentionCheck = false, and
\* either completed = true with completedAt set to the time of the
\* confirmation, or completed = false with completedAt = null.
C5_Confirmation ==
    [][/\ (state' = "completed" /\ state # "completed") => storedData' = storedData
       /\ (state = "completed" /\ state' # "completed")
            => /\ state' = "idle"
               /\ remainingSeconds' = durationMinutes' * SecondsPerMinute
               /\ durationMinutes' = durationMinutes
               /\ AppendsOne
               /\ Appended.duration = Num(durationMinutes)
               /\ Appended.attentionChecksResponded = Num(attentionChecksResponded)
               /\ Appended.failedAttentionCheck = Bool(FALSE)
               /\ \/ /\ Appended.completed = Bool(TRUE)
                     /\ Appended.completedAt = Str(toISOString(now))
                  \/ /\ Appended.completed = Bool(FALSE)
                     /\ Appended.completedAt = Null]_vars

\* C5's case: a session that answered a check was confirmed as distracted.
C5_Witness ==
    /\ state = "idle"
    /\ Len(StoredSessions) = 1
    /\ StoredSessions[1].completed = Bool(FALSE)
    /\ StoredSessions[1].failedAttentionCheck = Bool(FALSE)
    /\ StoredSessions[1].attentionChecksResponded = Num(1)

\* A wheel or touch event reaches its handler.
DurationAdjustment == HandleWheel \/ HandleTouchStart \/ HandleTouchMove

\* C6: outside idle a wheel or touch event changes neither state,
\* durationMinutes, remainingSeconds nor the persisted last duration; and no
\* step at all taken outside idle changes durationMinutes, the persisted
\* last duration or the touch accumulator.
C6_AdjustmentOutsideIdle ==
    [][state # "idle"
         => /\ DurationAdjustment
                 => UNCHANGED <<state, durationMinutes, remainingSeconds, lastDuration>>
            /\ UNCHANGED <<durationMinutes, lastDuration, touchStartY, touchAccumulated>>]_vars

\* C6's case: a session under way, part of its countdown gone, where the
\* wheel and touch events are offered.
C6_Witness ==
    /\ state = "attention-check"
    /\ remainingSeconds < durationMinutes * SecondsPerMinute
    /\ ENABLED HandleWheel
    /\ ENABLED TouchDuringSession

\* C7: durationMinutes is always within [1, 60], from whatever text the
\* last-duration key held when the page was opened; in idle remainingSeconds
\* is durationMinutes * 60 and the last-duration key reads back as
\* durationMinutes; every adjustment that changes the duration persists its
\* decimal text.
C7_DurationInRange ==
    /\ [](/\ durationMinutes >= MinDuration
          /\ durationMinutes <= MaxDuration
          /\ state = "idle" => remainingSeconds = durationMinutes * SecondsPerMinute
          /\ getLastDuration(lastDuration) = durationMinutes)
    /\ [][durationMinutes' # durationMinutes
            => /\ lastDuration' = <<String(durationMinutes')>>
               /\ parseInt(lastDuration'[1]) = <<durationMinutes'>>
               /\ remainingSeconds' = durationMinutes' * SecondsPerMinute]_vars

\* C7's case: touch gestures have driven the duration to its floor, leaving
\* a remainder in the accumulator.
C7_Witness ==
    /\ durationMinutes = MinDuration
    /\ lastDuration = <<String(MinDuration)>>
    /\ touchAccumulated # 0
    /\ remainingSeconds = SecondsPerMinute

-----------------------------------------------------------------------------
(* The claims about the store *)

\* The local calendar days on which the stored sessions were completed.
CompletedDays == getCompletedDays(StoredSessions, tz)

\* The length of the run of consecutive days of the set days that ends at d.
RECURSIVE RunEndingAt(_, _)
RunEndingAt(days, d) == IF d \in days THEN 1 + RunEndingAt(days, d - 1) ELSE 0

\* The current streak of the specification: the run that ends today if today
\* is a completed day, else the run that ends yesterday.
RunToToday(days, today) ==
    IF today \in days THEN RunEndingAt(days, today) ELSE RunEndingAt(days, today - 1)

\* The longest run of consecutive days within the set days.
LongestRun(days) ==
    IF days = {} THEN 0
    ELSE CHOOSE n \in 1..Cardinality(days) :
             /\ \E d \in days : RunEndingAt(days, d) = n
             /\ \A d \in days : RunEndingAt(days, d) <= n

\* The sequence s back to front.
Reversed(s) == [i \in 1..Len(s) |-> s[Len(s) + 1 - i]]

\* C8 (as claimed): every time the store is written, the currentStreak it
\* records is the length of the run of consecutive completed local days that
\* ends today if today is completed, else at yesterday if yesterday is
\* completed, else 0; today and the completed days being local calendar
\* dates of the viewer's timezone, whatever its UTC offset.
C8_CurrentStreak ==
    [][storedData' # storedData
         => loadData(storedData').currentStreak
                = RunToToday(CompletedDays', LocalDay(now', tz'))]_vars

\* C9: the longestStreak the store records, and the one recalculateStreaks
\* returns for the stored sessions, is the length of the longest run of
\* consecutive days within the set of completed local days (1 for a lone
\* day); both streaks are 0 when no session is completed; and
\* recalculateStreaks returns the same for the stored sessions back to front
\* and for the stored sessions listed twice over.
C9_LongestStreak ==
    LET streaks == recalculateStreaks(StoredSessions, now, tz)
        none == [currentStreak |-> 0, longestStreak |-> 0]
    IN  /\ streaks.longestStreak = LongestRun(CompletedDays)
        /\ CompletedDays = {} => streaks = none
        /\ storedData # <<>>
             => /\ loadData(storedData).longestStreak = LongestRun(CompletedDays)
                /\ CompletedDays = {} => loadData(storedData).currentStreak = 0
        /\ recalculateStreaks(Reversed(StoredSessions), now, tz) = streaks
        /\ recalculateStreaks(StoredSessions \o StoredSessions, now, tz) = streaks

\* C9's case: three sessions completed on three days, two of them
\* consecutive, stored out of date order, the longest run not the latest.
C9_Witness ==
    /\ Len(StoredSessions) = 3
    /\ Cardinality(CompletedDays) = 3
    /\ loadData(storedData).longestStreak = 2
    /\ loadData(storedData).currentStreak = 1
    /\ DateOf(StoredSessions[1].completedAt)[1] > DateOf(StoredSessions[3].completedAt)[1]

\* C10 (as claimed): a file that imports successfully into the store as it
\* stands, imported again right after, reports no session imported and every
\* entry skipped, and leaves the sessions list as the first import left it.
C10_ImportIdempotent ==
    \A parsed \in Bundles :
        LET first == importData(storedData, parsed, now, tz)
            second == importData(first.stored, parsed, now, tz)
        IN  first.success
                => /\ second.success
                   /\ second.message = <<3, 0, Len(parsed.sessions.items)>>
                   /\ loadData(second.stored).sessions = loadData(first.stored).sessions

\* The intervals a draw can give.
CheckIntervals == MinCheckInterval .. (MinCheckInterval + CheckIntervalSpan - 1)

\* C19: the respond action during an attention check returns the state to
\* running, adds exactly one to attentionChecksResponded, cancels the
\* failure timeout and the progress interval, and draws a fresh interval to
\* the next check, the countdown and its interval left alone; in any other
\* state the respond action changes nothing.
C19_Respond ==
    /\ [](\A random \in Randoms :
              LET m == respondToAttentionCheck(Machine, random)
              IN  IF state = "attention-check"
                  THEN /\ m.state = "running"
                       /\ m.attentionChecksResponded = attentionChecksResponded + 1
                       /\ m.attentionTimeout = NoTimer
                       /\ m.attentionBarInterval = NoTimer
                       /\ \A tm \in m.timers : tm.cb \notin {"fail", "bar"}
                       /\ m.nextAttentionCheck = MinCheckInterval + random
                       /\ m.nextAttentionCheck \in CheckIntervals
                       /\ m.remainingSeconds = remainingSeconds
                       /\ m.timerInterval = timerInterval
                       /\ m = handleAction(Machine, random)
                  ELSE m = Machine)
    /\ [][state = "attention-check" /\ state' = "running"
            => /\ attentionChecksResponded' = attentionChecksResponded + 1
               /\ attentionTimeout' = NoTimer
               /\ attentionBarInterval' = NoTimer
               /\ \A tm \in timers' : tm.cb = "tick"
               /\ nextAttentionCheck' \in CheckIntervals
               /\ remainingSeconds' = remainingSeconds]_vars

\* C19's case: a check was answered while its failure timeout was pending,
\* and the session runs on towards its next check.
C19_Witness ==
    /\ state = "running"
    /\ attentionChecksResponded = 1
    /\ attentionTimeout = NoTimer
    /\ attentionBarInterval = NoTimer
    /\ nextAttentionCheck \in CheckIntervals
    /\ remainingSeconds < MinCheckInterval

\* C20: every step into running leaves nextAttentionCheck in [30, 120];
\* while the session runs, a tick takes exactly one from it and no other
\* step touches it, so that it falls in step with the countdown; it is at
\* least 1 in every running state; and a check is triggered by the tick
\* that takes it from 1 to 0, no other, which for the first check of a
\* session is no earlier than the 30th and no later than the 120th tick.
C20_CheckInterval ==
    /\ [](state = "running"
            => /\ nextAttentionCheck >= 1
               /\ nextAttentionCheck <= MinCheckInterval + CheckIntervalSpan - 1
               /\ tickCallback(Machine).nextAttentionCheck = nextAttentionCheck - 1)
    /\ [][/\ state # "running" /\ state' = "running"
               => nextAttentionCheck' \in CheckIntervals
          /\ state = "running" /\ state' = "running"
               => /\ nextAttentionCheck' - nextAttentionCheck
                         = remainingSeconds' - remainingSeconds
                  /\ nextAttentionCheck' - nextAttentionCheck \in {0, -1}
          /\ state = "running" /\ state' = "attention-check"
               => /\ nextAttentionCheck = 1
                  /\ nextAttentionCheck' = 0
                  /\ remainingSeconds' = remainingSeconds - 1
                  /\ attentionChecksResponded = 0
                        => (durationMinutes * SecondsPerMinute - remainingSeconds')
                               \in CheckIntervals
          /\ state = "running" /\ nextAttentionCheck > 1
               => state' # "attention-check"]_vars

\* C20's case: the least interval was drawn at the start and the check came
\* with the 30th tick.
C20_Witness ==
    /\ state = "attention-check"
    /\ nextAttentionCheck = 0
    /\ attentionChecksResponded = 0
    /\ durationMinutes * SecondsPerMinute - remainingSeconds = MinCheckInterval

\* C21 (as claimed): the tick that takes both nextAttentionCheck and
\* remainingSeconds to zero in a running session leaves the controller in
\* attention-check, its failure timeout pending, and not in completed: the
\* check, tested first, takes precedence over the completion.
C21_CheckBeforeCompletion ==
    [][(state = "running" /\ nextAttentionCheck = 1 /\ remainingSeconds = 1
           /\ remainingSeconds' = 0)
         => (/\ state' = "attention-check"
             /\ attentionTimeout' # NoTimer
             /\ \E tm \in timers' : tm.cb = "fail")]_vars

InSession == state \in {"running", "attention-check"}

\* C22: a started session ends.  With the tick and the failure timeout
\* firing fairly, every running or attention-check state leads to completed
\* or failed, whatever the user does; the countdown stays within
\* [0, durationMinutes * 60]; during the session every tick takes one from
\* it, a check shown or not, a response leaves it alone, and the tick that
\* takes it to zero, the (durationMinutes * 60)-th of the session at the
\* latest, ends the session.
C22_SessionEnds ==
    /\ [](/\ remainingSeconds >= 0
          /\ remainingSeconds <= durationMinutes * SecondsPerMinute
          /\ InSession
               => /\ remainingSeconds >= 1
                  /\ \E tm \in timers : tm.cb = "tick"
                  /\ tickCallback(Machine).remainingSeconds = remainingSeconds - 1
                  /\ remainingSeconds = 1
                        => tickCallback(Machine).state \in {"completed", "failed"}
                  /\ \A random \in Randoms :
                         /\ handleAction(Machine, random).remainingSeconds
                                = remainingSeconds
                         /\ handleAction(Machine, random).durationMinutes
                                = durationMinutes)
    /\ [][InSession /\ InSession'
            => /\ durationMinutes' = durationMinutes
               /\ remainingSeconds' \in {remainingSeconds, remainingSeconds - 1}]_vars
    /\ (InSession ~> state \in {"completed", "failed"})

\* C22's case: a check was answered, and the session reached its end
\* with the countdown at zero.
C22_Witness ==
    /\ state = "completed"
    /\ remainingSeconds = 0
    /\ attentionChecksResponded >= 1

\* The stored list is the same after the step.
StoredUnchanged == StoredSessions' = StoredSessions

\* C23: a started session leaves at most one record and has one outcome,
\* in whatever order the tick and the failure timeout fire.  A session
\* leaves running and attention-check only to completed or to failed; from
\* failed the controller goes to idle only, and from completed to idle
\* only, so that no session is both; the stored list grows on two steps
\* only, by one record each, the step into failed and the confirmation
\* that leaves completed, and the dismissal of a failure and every other
\* step leave it as it was.
C23_OneRecordOneOutcome ==
    [][/\ InSession => state' \in {"running", "attention-check", "completed", "failed"}
       /\ state = "failed" => state' \in {"failed", "idle"}
       /\ state = "completed" => state' \in {"completed", "idle"}
       /\ state = "idle" => state' \in {"idle", "running"}
       /\ state # "failed" /\ state' = "failed"
            => AppendsOne /\ Appended.failedAttentionCheck = Bool(TRUE)
       /\ state = "completed" /\ state' = "idle"
            => AppendsOne /\ Appended.failedAttentionCheck = Bool(FALSE)
       /\ ~(state # "failed" /\ state' = "failed")
            /\ ~(state = "completed" /\ state' = "idle")
            => StoredUnchanged
       /\ state \in {"failed", "completed"}
            => timers = {} /\ dismissFailed(Machine).storedData = storedData]_vars

\* C23's case: a session failed on its check, its one record was stored,
\* and the failure was dismissed.
C23_Witness ==
    /\ state = "idle"
    /\ timers = {}
    /\ Len(StoredSessions) = 1
    /\ StoredSessions[1].failedAttentionCheck = Bool(TRUE)
    /\ StoredSessions[1].completed = Bool(FALSE)

(* Claims on the store under any file (SpecFiles).                          *)

\* An entry that is short of an id, a start time, a numeric duration or a
\* boolean completed flag.
ShortOfAField(s) ==
    \/ "id" \notin DOMAIN s
    \/ "startTime" \notin DOMAIN s
    \/ "duration" \notin DOMAIN s \/ s.duration.t # "number"
    \/ "completed" \notin DOMAIN s \/ s.completed.t # "boolean"

HasSessionsArray(parsed) ==
    /\ "sessions" \in DOMAIN parsed
    /\ parsed.sessions.t = "array"

\* The files C11 is about: unparseable, or without a sessions array, or with
\* an entry short of a field.  A file that is null, or has a null entry, is
\* C12's.
MustBeRefused(parsed) ==
    \/ parsed.t = "unparseable"
    \/ parsed.t # "null" /\ ~HasSessionsArray(parsed)
    \/ /\ HasSessionsArray(parsed)
       /\ \A i \in DOMAIN parsed.sessions.items : parsed.sessions.items[i].t # "null"
       /\ \E i \in DOMAIN parsed.sessions.items : ShortOfAField(parsed.sessions.items[i])

C12_ImportNeverThrows ==
    \A parsed \in AnyBundles :
        LET result == importData(storedData, parsed, now, tz)
        IN  /\ ~result.threw
            /\ result.success \in BOOLEAN
            /\ result.message # <<>>

\* C13 (as claimed): the file exported from the store as it stands, imported
\* into an empty store, leaves there the same sessions, ids and fields, in
\* the same order, and the current and the longest streak that the file's
\* statistics carry.
C13_ExportImportRoundTrip ==
    LET file == exportData(storedData, now)
        result == importData(<<>>, file, now, tz)
        data == loadData(result.stored)
    IN  /\ result.success
        /\ data.sessions = StoredSessions
        /\ data.currentStreak = file.stats.currentStreak.v
        /\ data.longestStreak = file.stats.longestStreak.v

\* Every stored session was recorded by the controller: its id is a UUID.
ControllerProduced ==
    \A i \in 1..Len(StoredSessions) :
        /\ StoredSessions[i].id.t = "string"
        /\ \E n \in 1..uuids : StoredSessions[i].id.v = Uuid(n)

\* C14 (as claimed): of a store of sessions that the controller recorded,
\* the exported attentionCheckSuccessRate lies in [0, 1]: it is 1 when no
\* check was answered in any session, and otherwise the sessions failed on
\* a check are no more than the checks answered, 0 <= total - failed <= total.
C14_SuccessRateInRange ==
    LET rate == exportData(storedData, now).stats.attentionCheckSuccessRate
        total == Reduce(StoredSessions, "attentionChecksResponded")
        failed == Cardinality({ i \in 1..Len(StoredSessions) :
                                   StoredSessions[i].failedAttentionCheck.v })
    IN  ControllerProduced
            => IF total = 0 THEN rate = Num(1)
               ELSE /\ 0 <= total - failed /\ total - failed <= total
                    /\ 0 <= rate.dividend /\ rate.dividend <= rate.divisor

\* C15 (as claimed): after any sessions of the controller and any imports,
\* every stored session has completedAt non-null exactly when completed is
\* true, and is not both completed and failed on an attention check.
C15_StoredSessionsConsistent ==
    \A i \in 1..Len(StoredSessions) :
        LET session == StoredSessions[i]
        IN  /\ (session.completedAt.t # "null") <=> (session.completed = Bool(TRUE))
            /\ ~(session.completed = Bool(TRUE) /\ session.failedAttentionCheck = Bool(TRUE))

\* C16: the stored list only grows at its end.  Across every step, the
\* recording of a session and every import, successful or refused, among
\* them, the list before the step is a prefix of the list after it: no
\* session is removed, moved or changed.
C16_AppendOnly ==
    [][/\ Len(StoredSessions') >= Len(StoredSessions)
       /\ SubSeq(StoredSessions', 1, Len(StoredSessions)) = StoredSessions]_vars

\* C16's case: a session imported, a session recorded after it, and then a
\* file refused.
C16_Witness ==
    /\ Len(StoredSessions) = 2
    /\ StoredSessions[1].id = Str(<<97>>)
    /\ StoredSessions[2].id = Str(Uuid(1))
    /\ importMessage = <<5>>

\* C17 (as claimed): a step that records a session with completed = false
\* leaves the set of completed days as it was and raises neither the stored
\* current streak nor the stored longest streak.
C17_UncompletedCountsNothing ==
    [][AppendsOne /\ Appended.completed = Bool(FALSE)
         => /\ CompletedDays' = CompletedDays
            /\ completedDays' = completedDays
            /\ loadData(storedData').currentStreak <= loadData(storedData).currentStreak
            /\ loadData(storedData').longestStreak <= loadData(storedData).longestStreak]_vars

\* No two sessions of the list have the same id.
DistinctIds(sessions) ==
    \A i, j \in 1..Len(sessions) : sessions[i].id = sessions[j].id => i = j

\* C18 (as claimed): a successful import into a store whose ids are pairwise
\* distinct leaves them pairwise distinct, whatever the file, one that holds
\* the same id in more than one entry included, and the count of imported
\* sessions that it reports is the number of distinct ids of the file that
\* the store did not hold.
C18_ImportKeepsIdsDistinct ==
    \A parsed \in AnyBundles :
        LET result == importData(storedData, parsed, now, tz)
            held == { StoredSessions[i].id : i \in 1..Len(StoredSessions) }
            offered == { parsed.sessions.items[i].id : i \in 1..Len(parsed.sessions.items) }
        IN  DistinctIds(StoredSessions) /\ result.success
                => /\ DistinctIds(loadData(result.stored).sessions)
                   /\ result.message[2] = Cardinality(offered \ held)

\* C24: every step that writes the store, the recording of a session and a
\* successful import, leaves in it the currentStreak and the longestStreak
\* that recalculateStreaks gives for the whole stored list at that instant;
\* and with the clock advancing between the writes, the stored
\* longestStreak never decreases and the stored currentStreak never exceeds
\* the stored longestStreak.
C24_StoredStreaks ==
    /\ [](loadData(storedData).currentStreak <= loadData(storedData).longestStreak)
    /\ [][/\ storedData' # storedData
               => LET data == loadData(storedData')
                      streaks == recalculateStreaks(data.sessions, now', tz')
                  IN  /\ data.currentStreak = streaks.currentStreak
                      /\ data.longestStreak = streaks.longestStreak
          /\ loadData(storedData').longestStreak >= loadData(storedData).longestStreak]_vars

\* C24's case: sessions recorded and imported on three days with the clock
\* advanced between them, the stored streaks at 1 and at 2.
C24_Witness ==
    /\ Len(StoredSessions) = 3
    /\ Cardinality(CompletedDays) = 3
    /\ loadData(storedData).currentStreak = 1
    /\ loadData(storedData).longestStreak = 2
    /\ \E i \in 1..3 : StoredSessions[i].id = Str(Uuid(1))
    /\ \E i \in 1..3 : StoredSessions[i].id = Str(<<97>>)

=============================================================================
